---------------------------- MODULE Spec2Model ----------------------------
(***************************************************************************)
(* Model of the news-to-sentiment pipeline of Financial_analysis_backend:  *)
(*   - request_processing  (parsing/article_analyzer.py): the model pool   *)
(*     and the retry loop of the dispatcher;                               *)
(*   - get_rate            (parsing/article_analyzer.py): the parser of    *)
(*     the model's answer;                                                 *)
(*   - calc_compound, save_compound, save_articles_news                    *)
(*     (parsing/article_parser.py): aggregation and persistence;           *)
(*   - fetch_article_content (parsing/article_parser.py): the collection   *)
(*     of the articles of each company;                                    *)
(*   - text_processing     (parsing/article_analyzer.py): the normalizer   *)
(*     of the article text;                                                *)
(*   - main, response_processing (parsing/article_analyzer.py): the        *)
(*     analysis of one article, which runs the dispatcher and get_rate.    *)
(* Each component has its own specification (SpecDispatcher, SpecParser,   *)
(* SpecSave, SpecFetch, SpecText, SpecMain); the variables of the          *)
(* components it does not run stay at their idle values.                   *)
(***************************************************************************)
EXTENDS Integers, Sequences, FiniteSets, TLC

VARIABLES
    \* ---- dispatcher (article_analyzer.request_processing)
    MODELS,        \* the module-level pool: a sequence of handles
    rp_pc,         \* "off" | "idle" | "loop" | "returned" | "raised"
    attempt,       \* loop variable of "for attempt in range(max_retries)"
    delay,         \* local variable delay
    sleeps,        \* the arguments of sleep(), in order, of the current call
    answers,       \* what the backend answered to each attempt of the call
    result,        \* "none" | "response" | "None" | "error" | "IndexError"
    poolAtEntry,   \* Len(MODELS) when the current call was entered
    poolAtStart,   \* Len(MODELS) after the lazy population of the call
    poolAtAttempt, \* Len(MODELS) when the latest attempt began (before pop)
    calls,         \* number of calls of request_processing so far
    \* ---- parser (article_analyzer.get_rate)
    summary,       \* the text of the model's answer
    rating,        \* what get_rate returned, "none" before
    gr_pc,         \* "idle" | "start" | "done" | "raised"
    \* ---- persistence (article_parser.save_compound, save_articles_news)
    stocks,          \* titles of the rows of the Stock table
    article_dict,    \* the batch handed to both save functions
    stock_compound,  \* committed rows of table stock_compound
    stock_news,      \* committed rows of table stock_news
    compound_before, \* stock_compound when save_compound was called
    news_before,     \* stock_news when the run began
    sv_pc,           \* position in lines 115-116 and the two functions
    sv_k,            \* index of the company the current loop is at
    stock_compounds, \* local list of save_compound
    stock_news_list, \* local list stock_news of save_articles_news
    sc_outcome,      \* how save_compound ended, "none" before
    sn_outcome,      \* how save_articles_news ended, "none" before
    \* ---- collection (article_parser.fetch_article_content)
    news_dict,       \* what get_companies_news returned: companies, links
    f_pc,            \* "idle" | "company" | "articles" | "save"
    f_c,             \* index of the company the outer loop is at
    f_n,             \* index of the link the inner loop is at
    titles_list,     \* the four lists of the current company
    links_list,
    summary_list,
    rating_list,
    articles_dict,   \* the dict of line 68, in insertion order
    fetch_log,       \* what happened to each link so far, in order
    \* ---- normalizer (article_analyzer.text_processing)
    article_text,    \* the text handed to the first call of text_processing
    processed,       \* what each call returned; every call after the first
                     \* is handed what the call before it returned
    t_pc,            \* "idle" | "ready"
    \* ---- analysis of one article (article_analyzer.main)
    m_pc,              \* "idle" | "start" | "ai_analyzer" | "get_rate" |
                       \* "returned" | "raised"
    m_article,         \* the parameter article
    processed_article, \* local variable of main
    ready_article,     \* local variable of main
    m_calls,           \* calls when main was entered
    m_error            \* the exception that left main, "none" if none

dvars == <<MODELS, rp_pc, attempt, delay, sleeps, answers, result,
           poolAtEntry, poolAtStart, poolAtAttempt, calls>>

pvars == <<summary, rating, gr_pc>>

svars == <<stocks, article_dict, stock_compound, stock_news, compound_before,
           news_before, sv_pc, sv_k, stock_compounds, stock_news_list,
           sc_outcome, sn_outcome>>

fvars == <<news_dict, f_pc, f_c, f_n, titles_list, links_list, summary_list,
           rating_list, articles_dict, fetch_log>>

tvars == <<article_text, processed, t_pc>>

mvars == <<m_pc, m_article, processed_article, ready_article, m_calls,
           m_error>>

vars == <<dvars, pvars, svars, fvars, tvars, mvars>>

-----------------------------------------------------------------------------
(* Bounds of the model *)
MaxCalls == 3
MaxFragments == 3
MaxRatings == 2
MaxLinks == 2
MaxPieces == 3
MaxPasses == 2

-----------------------------------------------------------------------------
(* The values of a component's variables while another component is modelled *)
DispatcherIdle ==
    /\ MODELS = <<>>
    /\ rp_pc = "off"
    /\ attempt = 0
    /\ delay = 0
    /\ sleeps = <<>>
    /\ answers = <<>>
    /\ result = "none"
    /\ poolAtEntry = 0
    /\ poolAtStart = 0
    /\ poolAtAttempt = 0
    /\ calls = 0

ParserIdle ==
    /\ summary = <<>>
    /\ rating = "none"
    /\ gr_pc = "idle"

SaveIdle ==
    /\ stocks = {}
    /\ article_dict = <<>>
    /\ stock_compound = <<>>
    /\ stock_news = <<>>
    /\ compound_before = <<>>
    /\ news_before = <<>>
    /\ sv_pc = "idle"
    /\ sv_k = 0
    /\ stock_compounds = <<>>
    /\ stock_news_list = <<>>
    /\ sc_outcome = "none"
    /\ sn_outcome = "none"

FetchIdle ==
    /\ news_dict = <<>>
    /\ f_pc = "idle"
    /\ f_c = 0
    /\ f_n = 0
    /\ titles_list = <<>>
    /\ links_list = <<>>
    /\ summary_list = <<>>
    /\ rating_list = <<>>
    /\ articles_dict = <<>>
    /\ fetch_log = <<>>

TextIdle ==
    /\ article_text = <<>>
    /\ processed = <<>>
    /\ t_pc = "idle"

MainIdle ==
    /\ m_pc = "idle"
    /\ m_article = <<>>
    /\ processed_article = <<>>
    /\ ready_article = <<>>
    /\ m_calls = 0
    /\ m_error = "none"

-----------------------------------------------------------------------------
(***************************************************************************)
(* Dispatcher: request_processing and the MODELS pool                      *)
(***************************************************************************)
max_retries == 6
initial_delay == 10
backoff_factor == 5
cooldown == 10

\* create_models(): three fresh handles
create_models == <<1, 2, 3>>

\* list.pop(): the last element, and the list without it
PopModel(pool) == pool[Len(pool)]
PopRest(pool) == SubSeq(pool, 1, Len(pool) - 1)

\* Variant of LoopNextPc whose loop runs once more.
LoopNextPc_OneMore(a) == IF a + 1 < max_retries + 1 THEN "loop" ELSE "returned"

\* The loop "for attempt in range(max_retries)" after one more iteration that
\* neither returned nor raised: next iteration, or fall out of the loop to
\* "return None" (lines 168-169).
LoopNextPc(a) == IF a + 1 < max_retries THEN "loop" ELSE "returned"
LoopNextResult(a) == IF a + 1 < max_retries THEN "none" ELSE "None"

DispatcherInit ==
    /\ ParserIdle
    /\ SaveIdle
    /\ FetchIdle
    /\ TextIdle
    /\ MainIdle
    /\ MODELS = <<>>
    /\ rp_pc = "idle"
    /\ attempt = 0
    /\ delay = initial_delay
    /\ sleeps = <<>>
    /\ answers = <<>>
    /\ result = "none"
    /\ poolAtEntry = 0
    /\ poolAtStart = 0
    /\ poolAtAttempt = 0
    /\ calls = 0

\* Variant of Call that creates the models on every call.
Call_AlwaysPopulates ==
    /\ rp_pc \in {"idle", "returned", "raised"}
    /\ calls < MaxCalls
    /\ calls' = calls + 1
    /\ poolAtEntry' = Len(MODELS)
    /\ MODELS' = MODELS \o create_models
    /\ poolAtStart' = Len(MODELS')
    /\ poolAtAttempt' = Len(MODELS')
    /\ attempt' = 0
    /\ delay' = initial_delay
    /\ sleeps' = <<>>
    /\ answers' = <<>>
    /\ result' = "none"
    /\ rp_pc' = "loop"
    /\ UNCHANGED <<pvars, svars, fvars, tvars, mvars>>

\* request_processing is entered (sequential use: the previous call is over):
\* lazy population, then the locals are set.
Call ==
    /\ rp_pc \in {"idle", "returned", "raised"}
    /\ calls < MaxCalls
    /\ calls' = calls + 1
    /\ poolAtEntry' = Len(MODELS)
    /\ MODELS' = IF MODELS = <<>> THEN create_models ELSE MODELS
    /\ poolAtStart' = Len(MODELS')
    /\ poolAtAttempt' = Len(MODELS')
    /\ attempt' = 0
    /\ delay' = initial_delay
    /\ sleeps' = <<>>
    /\ answers' = <<>>
    /\ result' = "none"
    /\ rp_pc' = "loop"
    /\ UNCHANGED <<pvars, svars, fvars, tvars, mvars>>

\* MODELS.pop() on an empty list raises IndexError, outside the try block.
AttemptPoolEmpty ==
    /\ rp_pc = "loop"
    /\ MODELS = <<>>
    /\ rp_pc' = "raised"
    /\ result' = "IndexError"
    /\ poolAtAttempt' = Len(MODELS)
    /\ UNCHANGED <<MODELS, attempt, delay, sleeps, answers, poolAtEntry,
                   poolAtStart, calls>>
    /\ UNCHANGED <<pvars, svars, fvars, tvars, mvars>>

\* generate_content returns a truthy response: sleep(10), return response.
\* The popped handle is not appended back.
AttemptSuccess ==
    /\ rp_pc = "loop"
    /\ MODELS # <<>>
    /\ poolAtAttempt' = Len(MODELS)
    /\ MODELS' = PopRest(MODELS)
    /\ answers' = Append(answers, "response")
    /\ sleeps' = Append(sleeps, cooldown)
    /\ result' = "response"
    /\ rp_pc' = "returned"
    /\ UNCHANGED <<attempt, delay, poolAtEntry, poolAtStart, calls>>
    /\ UNCHANGED <<pvars, svars, fvars, tvars, mvars>>

\* generate_content returns a falsy response: "if response:" is skipped, no
\* exception, the loop goes on; the popped handle is not appended back.
AttemptFalsy ==
    /\ rp_pc = "loop"
    /\ MODELS # <<>>
    /\ poolAtAttempt' = Len(MODELS)
    /\ MODELS' = PopRest(MODELS)
    /\ answers' = Append(answers, "falsy")
    /\ attempt' = attempt + 1
    /\ rp_pc' = LoopNextPc(attempt)
    /\ result' = LoopNextResult(attempt)
    /\ UNCHANGED <<delay, sleeps, poolAtEntry, poolAtStart, calls>>
    /\ UNCHANGED <<pvars, svars, fvars, tvars, mvars>>

\* Variant of AttemptRateLimited whose delay does not grow.
AttemptRateLimited_ConstantDelay ==
    /\ rp_pc = "loop"
    /\ MODELS # <<>>
    /\ poolAtAttempt' = Len(MODELS)
    /\ answers' = Append(answers, "429")
    /\ sleeps' = Append(sleeps, delay)
    /\ delay' = delay
    /\ MODELS' = Append(PopRest(MODELS), PopModel(MODELS))
    /\ attempt' = attempt + 1
    /\ rp_pc' = LoopNextPc(attempt)
    /\ result' = LoopNextResult(attempt)
    /\ UNCHANGED <<poolAtEntry, poolAtStart, calls>>
    /\ UNCHANGED <<pvars, svars, fvars, tvars, mvars>>

\* generate_content raises with '429' in the message: sleep(delay), the delay
\* grows, the handle is appended back, the loop goes on.
AttemptRateLimited ==
    /\ rp_pc = "loop"
    /\ MODELS # <<>>
    /\ poolAtAttempt' = Len(MODELS)
    /\ answers' = Append(answers, "429")
    /\ sleeps' = Append(sleeps, delay)
    /\ delay' = delay + backoff_factor
    /\ MODELS' = Append(PopRest(MODELS), PopModel(MODELS))
    /\ attempt' = attempt + 1
    /\ rp_pc' = LoopNextPc(attempt)
    /\ result' = LoopNextResult(attempt)
    /\ UNCHANGED <<poolAtEntry, poolAtStart, calls>>
    /\ UNCHANGED <<pvars, svars, fvars, tvars, mvars>>

\* Variant of AttemptOtherError that treats the error as a rate limit: it
\* sleeps and goes on with the loop.
AttemptOtherError_Retry ==
    /\ rp_pc = "loop"
    /\ MODELS # <<>>
    /\ poolAtAttempt' = Len(MODELS)
    /\ MODELS' = PopRest(MODELS)
    /\ answers' = Append(answers, "error")
    /\ sleeps' = Append(sleeps, delay)
    /\ delay' = delay + backoff_factor
    /\ attempt' = attempt + 1
    /\ rp_pc' = LoopNextPc(attempt + 1)
    /\ result' = LoopNextResult(attempt + 1)
    /\ UNCHANGED <<poolAtEntry, poolAtStart, calls>>
    /\ UNCHANGED <<pvars, svars, fvars, tvars, mvars>>

\* generate_content raises without '429': logged and re-raised; the popped
\* handle is not appended back.
AttemptOtherError ==
    /\ rp_pc = "loop"
    /\ MODELS # <<>>
    /\ poolAtAttempt' = Len(MODELS)
    /\ MODELS' = PopRest(MODELS)
    /\ answers' = Append(answers, "error")
    /\ result' = "error"
    /\ rp_pc' = "raised"
    /\ UNCHANGED <<attempt, delay, sleeps, poolAtEntry, poolAtStart, calls>>
    /\ UNCHANGED <<pvars, svars, fvars, tvars, mvars>>

DispatcherNext ==
    \/ Call
    \/ AttemptPoolEmpty
    \/ AttemptSuccess
    \/ AttemptFalsy
    \/ AttemptRateLimited
    \/ AttemptOtherError

-----------------------------------------------------------------------------
(***************************************************************************)
(* Parser: get_rate.  A text is a sequence of one-character strings.       *)
(***************************************************************************)
UpperCaseLetters ==
    <<"A", "B", "C", "D", "E", "F", "G", "H", "I", "J", "K", "L", "M", "N",
      "O", "P", "Q", "R", "S", "T", "U", "V", "W", "X", "Y", "Z">>
LowerCaseLetters ==
    <<"a", "b", "c", "d", "e", "f", "g", "h", "i", "j", "k", "l", "m", "n",
      "o", "p", "q", "r", "s", "t", "u", "v", "w", "x", "y", "z">>
DecimalDigits ==
    <<"0", "1", "2", "3", "4", "5", "6", "7", "8", "9">>

\* str.lower(), character by character
LowerChar(c) ==
    IF \E i \in 1..26 : UpperCaseLetters[i] = c
    THEN LowerCaseLetters[CHOOSE i \in 1..26 : UpperCaseLetters[i] = c]
    ELSE c
\* Variant of lower that leaves the letters' case alone.
lower_CaseKept(s) == s

lower(s) == <<>> \o [i \in 1..Len(s) |-> LowerChar(s[i])]

IsDigit(c) == \E i \in 1..10 : DecimalDigits[i] = c
DigitValue(c) == (CHOOSE i \in 1..10 : DecimalDigits[i] = c) - 1

\* The element of a pattern that stands for the capturing group (\d+%); every
\* other element of a pattern is a literal character.
DigitsPercentGroup == "(\\d+%)"

\* r'\(decrease (\d+%) \| increase (\d+%)\)'
forecast_pattern_1 ==
    <<"(", "d", "e", "c", "r", "e", "a", "s", "e", " ">>
    \o <<DigitsPercentGroup>>
    \o <<" ", "|", " ", "i", "n", "c", "r", "e", "a", "s", "e", " ">>
    \o <<DigitsPercentGroup>>
    \o <<")">>
\* r'\(increase (\d+%) \| decrease (\d+%)\)'
forecast_pattern_2 ==
    <<"(", "i", "n", "c", "r", "e", "a", "s", "e", " ">>
    \o <<DigitsPercentGroup>>
    \o <<" ", "|", " ", "d", "e", "c", "r", "e", "a", "s", "e", " ">>
    \o <<DigitsPercentGroup>>
    \o <<")">>
\* r'\(informativeness: (\d+%)\)'
informativeness_pattern ==
    <<"(", "i", "n", "f", "o", "r", "m", "a", "t", "i", "v", "e", "n", "e",
      "s", "s", ":", " ">>
    \o <<DigitsPercentGroup>>
    \o <<")">>

\* The position after the longest run of digits that starts at position i
\* (the greedy \d+; i itself when text[i] is no digit).
RECURSIVE DigitsEnd(_, _)
DigitsEnd(text, i) ==
    IF i <= Len(text) /\ IsDigit(text[i]) THEN DigitsEnd(text, i + 1) ELSE i

\* Match of pattern elements j.. at text position i: [ok, end, groups].
\* After \d+ the pattern asks for '%', which is no digit, so giving digits
\* back never helps: the greedy match is the only candidate.
RECURSIVE MatchFrom(_, _, _, _, _)
MatchFrom(text, i, pattern, j, groups) ==
    IF j > Len(pattern)
    THEN [ok |-> TRUE, end |-> i, groups |-> groups]
    ELSE IF pattern[j] = DigitsPercentGroup
    THEN LET e == DigitsEnd(text, i) IN
         IF e > i /\ e <= Len(text) /\ text[e] = "%"
         THEN MatchFrom(text, e + 1, pattern, j + 1,
                        Append(groups, SubSeq(text, i, e)))
         ELSE [ok |-> FALSE, end |-> i, groups |-> <<>>]
    ELSE IF i <= Len(text) /\ text[i] = pattern[j]
    THEN MatchFrom(text, i + 1, pattern, j + 1, groups)
    ELSE [ok |-> FALSE, end |-> i, groups |-> <<>>]

\* Pattern.findall with the scan at position i: the group tuples of the
\* non-overlapping matches, left to right.
RECURSIVE FindAllFrom(_, _, _)
FindAllFrom(pattern, text, i) ==
    IF i > Len(text) THEN <<>>
    ELSE LET m == MatchFrom(text, i, pattern, 1, <<>>) IN
         IF m.ok THEN <<m.groups>> \o FindAllFrom(pattern, text, m.end)
         ELSE FindAllFrom(pattern, text, i + 1)

findall(pattern, text) == FindAllFrom(pattern, text, 1)

\* Python values that get_rate indexes: a tuple of strings, or a string.
\* Indexing a tuple gives its item; indexing a string gives the one-character
\* string at that position.
PyTuple(items) == [kind |-> "tuple", items |-> items]
PyStr(s) == [kind |-> "str", items |-> s]
GetItem(v, i) ==
    IF v.kind = "tuple" THEN v.items[i + 1] ELSE <<v.items[i + 1]>>

\* s.replace('%', '')
RemovePercent(s) == SelectSeq(s, LAMBDA c : c # "%")

\* int(s) for a string of decimal digits
RECURSIVE int(_)
int(s) ==
    IF Len(s) = 0 THEN 0
    ELSE 10 * int(SubSeq(s, 1, Len(s) - 1)) + DigitValue(s[Len(s)])

Fifty ==
    <<"5", "0", "%">>

Rating(decrease, increase, informativeness) ==
    [Decrease_Probability |-> decrease, Increase_Probability |-> increase,
     Informativeness |-> informativeness]

\* Variant of Forecasts that looks for the reversed pattern first.
Forecasts_ReversedFirst(lower_summary) ==
    LET forecasts == findall(forecast_pattern_1, lower_summary)
        swap == findall(forecast_pattern_2, lower_summary)
    IN  IF swap # <<>>
        THEN <<PyTuple(<<swap[1][2], swap[1][1]>>)>>
        ELSE IF forecasts # <<>>
        THEN [i \in 1..Len(forecasts) |-> PyTuple(forecasts[i])]
        ELSE <<PyStr(Fifty), PyStr(Fifty)>>

\* Variant of Forecasts that keeps the reversed pair in the order matched.
Forecasts_NoSwap(lower_summary) ==
    LET forecasts == findall(forecast_pattern_1, lower_summary)
        swap == findall(forecast_pattern_2, lower_summary)
    IN  IF forecasts # <<>>
        THEN [i \in 1..Len(forecasts) |-> PyTuple(forecasts[i])]
        ELSE IF swap # <<>>
        THEN <<PyTuple(<<swap[1][1], swap[1][2]>>)>>
        ELSE <<PyStr(Fifty), PyStr(Fifty)>>

\* forecasts as get_rate leaves it before line 253
Forecasts(lower_summary) ==
    LET forecasts == findall(forecast_pattern_1, lower_summary)
        swap == findall(forecast_pattern_2, lower_summary)
    IN  IF forecasts # <<>>
        THEN [i \in 1..Len(forecasts) |-> PyTuple(forecasts[i])]
        ELSE IF swap # <<>>
        THEN IF Len(swap[1]) >= 2
             THEN <<PyTuple(<<swap[1][2], swap[1][1]>>)>>
             ELSE <<>>
        ELSE <<PyStr(Fifty), PyStr(Fifty)>>

\* informativeness as get_rate leaves it after line 251
InformativenessOf(lower_summary) ==
    LET informativeness == findall(informativeness_pattern, lower_summary)
    IN  IF informativeness = <<>> THEN 50
        ELSE int(RemovePercent(informativeness[1][1]))

\* forecasts[0] raises IndexError when forecasts is empty (line 253)
get_rate_raises(text) == Forecasts(lower(text)) = <<>>

\* get_rate(summary), lines 238-263, when it raises nothing
get_rate(text) ==
    LET lower_summary == lower(text)
        forecasts == Forecasts(lower_summary)
    IN       Rating(int(RemovePercent(GetItem(forecasts[1], 0))),
                    int(RemovePercent(GetItem(forecasts[1], 1))),
                    InformativenessOf(lower_summary))

\* Pieces of model answers, from which the texts of the model are built
FragDecreaseFirst ==
    <<"(", "d", "e", "c", "r", "e", "a", "s", "e", " ", "3", "0", "%", " ",
      "|", " ", "i", "n", "c", "r", "e", "a", "s", "e", " ", "7", "0", "%",
      ")">>
FragDecreaseFirstCapital ==
    <<"(", "D", "e", "c", "r", "e", "a", "s", "e", " ", "2", "0", "%", " ",
      "|", " ", "I", "n", "c", "r", "e", "a", "s", "e", " ", "8", "0", "%",
      ")">>
FragIncreaseFirst ==
    <<"(", "i", "n", "c", "r", "e", "a", "s", "e", " ", "6", "0", "%", " ",
      "|", " ", "d", "e", "c", "r", "e", "a", "s", "e", " ", "4", "0", "%",
      ")">>
FragInformativeness ==
    <<"(", "I", "n", "f", "o", "r", "m", "a", "t", "i", "v", "e", "n", "e",
      "s", "s", ":", " ", "8", "0", "%", ")">>
FragNoPercent ==
    <<"(", "d", "e", "c", "r", "e", "a", "s", "e", " ", "3", "0", " ", "|",
      " ", "i", "n", "c", "r", "e", "a", "s", "e", " ", "7", "0", ")">>
FragOutOfRange ==
    <<"(", "d", "e", "c", "r", "e", "a", "s", "e", " ", "1", "5", "0", "%",
      " ", "|", " ", "i", "n", "c", "r", "e", "a", "s", "e", " ", "0", "%",
      ")">>
FragProse ==
    <<"S", "t", "o", "c", "k", " ", "u", "p", " ", "5", "%", ".", " ">>

Fragments ==
    {FragDecreaseFirst, FragDecreaseFirstCapital, FragIncreaseFirst,
     FragInformativeness, FragNoPercent, FragOutOfRange, FragProse}

RECURSIVE Concat(_)
Concat(ss) == IF ss = <<>> THEN <<>> ELSE Head(ss) \o Concat(Tail(ss))

\* every concatenation of at most MaxFragments fragments
Texts ==
    UNION {{Concat(fs) : fs \in [1..n -> Fragments]} : n \in 0..MaxFragments}

ParserInit ==
    /\ DispatcherIdle
    /\ SaveIdle
    /\ FetchIdle
    /\ TextIdle
    /\ MainIdle
    /\ summary \in Texts
    /\ rating = "none"
    /\ gr_pc = "start"

\* rating = get_rate(summary)  (article_analyzer.main, line 306)
GetRate ==
    /\ gr_pc = "start"
    /\ IF get_rate_raises(summary)
       THEN rating' = "none" /\ gr_pc' = "raised"
       ELSE rating' = get_rate(summary) /\ gr_pc' = "done"
    /\ UNCHANGED summary
    /\ UNCHANGED <<dvars, svars, fvars, tvars, mvars>>

ParserNext == GetRate

-----------------------------------------------------------------------------
(***************************************************************************)
(* Aggregation and persistence: calc_compound, save_compound and           *)
(* save_articles_news, as fetch_article_content calls them (lines 115-116).*)
(* A float is held exactly: a quotient as <<numerator, denominator>>, a    *)
(* value rounded to 2 decimals as its number of hundredths (33.33 is 3333).*)
(***************************************************************************)
Companies == <<"A", "B">>

\* Ratings as get_rate produces them (any naturals the answer carried)
RatingSet ==
    {Rating(20, 80, 100), Rating(60, 40, 50), Rating(50, 50, 0),
     Rating(150, 0, 50)}

RatingLists == UNION {[1..n -> RatingSet] : n \in 0..MaxRatings}

\* articles_dict: the companies in insertion order, each with its rating
\* list (values_list[3]); the article at position i of a company stands for
\* its title, link and summary too.
ArticleDicts ==
    UNION {{[i \in 1..n |-> [company |-> Companies[i], ratings |-> rl[i]]] :
              rl \in [1..n -> RatingLists]} : n \in 0..Len(Companies)}

\* Rows left in the tables by an earlier run, of ratings that are not in
\* RatingSet (45.00 and 45.00 are the compound of no list of this run)
OldCompoundRows ==
    <<[stock_id |-> "A", fall_probability |-> 4500, rise_probability |-> 4500]>>
OldNewsRows ==
    <<[stock_id |-> "A", article |-> 1, decrease |-> 40, increase |-> 60,
       informativeness |-> 70]>>

\* The loop of lines 129-135 after its first n iterations
RECURSIVE SumRatings(_, _)
SumRatings(a_rating_list, n) ==
    IF n = 0 THEN [rise |-> 0, fall |-> 0, inform |-> 0]
    ELSE LET s == SumRatings(a_rating_list, n - 1)
             news_rate == a_rating_list[n]
         IN  [rise |-> s.rise + news_rate.Increase_Probability
                                  * news_rate.Informativeness,
              fall |-> s.fall + news_rate.Decrease_Probability
                                  * news_rate.Informativeness,
              inform |-> s.inform + news_rate.Informativeness]

\* The same loop without the informativeness weights
RECURSIVE SumRatingsUnweighted(_, _)
SumRatingsUnweighted(a_rating_list, n) ==
    IF n = 0 THEN [rise |-> 0, fall |-> 0, inform |-> 0]
    ELSE LET s == SumRatingsUnweighted(a_rating_list, n - 1)
             news_rate == a_rating_list[n]
         IN  [rise |-> s.rise + news_rate.Increase_Probability,
              fall |-> s.fall + news_rate.Decrease_Probability,
              inform |-> s.inform + news_rate.Informativeness]

\* Variant of calc_compound that answers (0, 0) when nothing is informative.
calc_compound_ZeroDefault(a_rating_list) ==
    LET s == SumRatings(a_rating_list, Len(a_rating_list))
    IN  IF s.inform = 0
        THEN [raised |-> "none", fall_prob |-> <<0, 1>>, rise_prob |-> <<0, 1>>]
        ELSE [raised |-> "none", fall_prob |-> <<s.fall, s.inform>>,
              rise_prob |-> <<s.rise, s.inform>>]

\* Variant of calc_compound that averages without the informativeness weights.
calc_compound_Unweighted(a_rating_list) ==
    LET s == SumRatingsUnweighted(a_rating_list, Len(a_rating_list))
    IN  IF s.inform = 0
        THEN [raised |-> "ZeroDivisionError"]
        ELSE [raised |-> "none", fall_prob |-> <<s.fall, Len(a_rating_list)>>,
              rise_prob |-> <<s.rise, Len(a_rating_list)>>]

\* Variant of calc_compound that leaves the weights' sum out of the quotient.
calc_compound_NoDivision(a_rating_list) ==
    LET s == SumRatings(a_rating_list, Len(a_rating_list))
    IN  IF s.inform = 0
        THEN [raised |-> "ZeroDivisionError"]
        ELSE [raised |-> "none", fall_prob |-> <<s.fall, 1>>,
              rise_prob |-> <<s.rise, 1>>]

\* calc_compound(a_rating_list): the two quotients fall/inform and rise/inform,
\* or the ZeroDivisionError that the division raises when inform is 0.
calc_compound(a_rating_list) ==
    LET s == SumRatings(a_rating_list, Len(a_rating_list))
    IN  IF s.inform = 0
        THEN [raised |-> "ZeroDivisionError"]
        ELSE [raised |-> "none", fall_prob |-> <<s.fall, s.inform>>,
              rise_prob |-> <<s.rise, s.inform>>]

\* round(x, 2) for the float x nearest to q[1]/q[2], in hundredths: the set
\* of values the build can give.  Off a tie the nearest hundredth.  On a tie
\* that is a binary fraction (a multiple of 1/8) x is exact and Python rounds
\* half to even; on any other tie x lies just above or just below the tie,
\* by its binary expansion, and either neighbour can come out.
round2(q) ==
    LET h == (100 * q[1]) \div q[2]
        r == (100 * q[1]) % q[2]
    IN  IF 2 * r < q[2] THEN {h}
        ELSE IF 2 * r > q[2] THEN {h + 1}
        ELSE IF (8 * q[1]) % q[2] = 0
        THEN {IF h % 2 = 0 THEN h ELSE h + 1}
        ELSE {h, h + 1}

\* The StockNews rows of one company's articles (the zip of line 245)
NewsRows(entry) ==
    [i \in 1..Len(entry.ratings) |->
        [stock_id |-> entry.company, article |-> i,
         decrease |-> entry.ratings[i].Decrease_Probability,
         increase |-> entry.ratings[i].Increase_Probability,
         informativeness |-> entry.ratings[i].Informativeness]]

\* fetch_article_content has built articles_dict and is about to call
\* save_compound (line 115); the tables hold the rows of an earlier run.
SaveInit ==
    /\ DispatcherIdle
    /\ ParserIdle
    /\ FetchIdle
    /\ TextIdle
    /\ MainIdle
    /\ stocks \in SUBSET {Companies[i] : i \in 1..Len(Companies)}
    /\ article_dict \in ArticleDicts
    /\ stock_compound = OldCompoundRows
    /\ stock_news = OldNewsRows
    /\ compound_before = stock_compound
    /\ news_before = stock_news
    /\ sv_pc = "sc_start"
    /\ sv_k = 0
    /\ stock_compounds = <<>>
    /\ stock_news_list = <<>>
    /\ sc_outcome = "none"
    /\ sn_outcome = "none"

\* Variant of SaveCompoundDelete that leaves the old rows in the table.
SaveCompoundDelete_KeepRows ==
    /\ sv_pc = "sc_start"
    /\ sv_pc' = "sc_deleted"
    /\ UNCHANGED <<stocks, article_dict, stock_compound, stock_news,
                   compound_before, news_before, sv_k, stock_compounds,
                   stock_news_list, sc_outcome, sn_outcome>>
    /\ UNCHANGED <<dvars, pvars, fvars, tvars, mvars>>

\* ---- save_compound
\* lines 154-155: delete every SentimentCompound row, commit
SaveCompoundDelete ==
    /\ sv_pc = "sc_start"
    /\ stock_compound' = <<>>
    /\ sv_pc' = "sc_deleted"
    /\ UNCHANGED <<stocks, article_dict, stock_news, compound_before,
                   news_before, sv_k, stock_compounds, stock_news_list,
                   sc_outcome, sn_outcome>>
    /\ UNCHANGED <<dvars, pvars, fvars, tvars, mvars>>

\* lines 157-161: restart the id sequence, commit, stock_compounds = []
SaveCompoundRestartSequence ==
    /\ sv_pc = "sc_deleted"
    /\ sv_pc' = "sc_loop"
    /\ sv_k' = 1
    /\ stock_compounds' = <<>>
    /\ UNCHANGED <<stocks, article_dict, stock_compound, stock_news,
                   compound_before, news_before, stock_news_list,
                   sc_outcome, sn_outcome>>
    /\ UNCHANGED <<dvars, pvars, fvars, tvars, mvars>>

\* lines 163, 175-176: no Stock row for the company: warning, next company
SaveCompoundNoStock ==
    /\ sv_pc = "sc_loop"
    /\ sv_k <= Len(article_dict)
    /\ article_dict[sv_k].company \notin stocks
    /\ sv_k' = sv_k + 1
    /\ UNCHANGED <<stocks, article_dict, stock_compound, stock_news,
                   compound_before, news_before, sv_pc, stock_compounds,
                   stock_news_list, sc_outcome, sn_outcome>>
    /\ UNCHANGED <<dvars, pvars, fvars, tvars, mvars>>

\* lines 163-174: the company has a Stock row and calc_compound returns:
\* the rounded pair is appended to stock_compounds
SaveCompoundAppend ==
    /\ sv_pc = "sc_loop"
    /\ sv_k <= Len(article_dict)
    /\ article_dict[sv_k].company \in stocks
    /\ LET c == calc_compound(article_dict[sv_k].ratings) IN
          /\ c.raised = "none"
          /\ \E f \in round2(c.fall_prob), r \in round2(c.rise_prob) :
                stock_compounds' = Append(stock_compounds,
                    [stock_id |-> article_dict[sv_k].company,
                     fall_probability |-> f, rise_probability |-> r])
    /\ sv_k' = sv_k + 1
    /\ UNCHANGED <<stocks, article_dict, stock_compound, stock_news,
                   compound_before, news_before, sv_pc, stock_news_list,
                   sc_outcome, sn_outcome>>
    /\ UNCHANGED <<dvars, pvars, fvars, tvars, mvars>>

\* lines 163-167, 185-186: the company has a Stock row and calc_compound
\* raises ZeroDivisionError, which "except SQLAlchemyError" does not catch:
\* the session is closed and the error leaves save_compound and
\* fetch_article_content (line 116 is not reached).
SaveCompoundZeroDivision ==
    /\ sv_pc = "sc_loop"
    /\ sv_k <= Len(article_dict)
    /\ article_dict[sv_k].company \in stocks
    /\ calc_compound(article_dict[sv_k].ratings).raised = "ZeroDivisionError"
    /\ sc_outcome' = "ZeroDivisionError"
    /\ sv_pc' = "crashed"
    /\ UNCHANGED <<stocks, article_dict, stock_compound, stock_news,
                   compound_before, news_before, sv_k, stock_compounds,
                   stock_news_list, sn_outcome>>
    /\ UNCHANGED <<dvars, pvars, fvars, tvars, mvars>>

\* lines 178-181: bulk_save_objects(stock_compounds) inserts the rows into
\* the table, commit
SaveCompoundBulkSave ==
    /\ sv_pc = "sc_loop"
    /\ sv_k > Len(article_dict)
    /\ stock_compound' = stock_compound \o stock_compounds
    /\ sc_outcome' = "committed"
    /\ sv_pc' = "sn_start"
    /\ UNCHANGED <<stocks, article_dict, stock_news, compound_before,
                   news_before, sv_k, stock_compounds, stock_news_list,
                   sn_outcome>>
    /\ UNCHANGED <<dvars, pvars, fvars, tvars, mvars>>

\* lines 182-186: a statement of the try block raises SQLAlchemyError: the
\* open transaction is rolled back (what was committed stays), the error is
\* logged and save_compound returns.
SaveCompoundDbError ==
    /\ sv_pc \in {"sc_start", "sc_deleted", "sc_loop"}
    /\ sc_outcome' = "rolled_back"
    /\ sv_pc' = "sn_start"
    /\ UNCHANGED <<stocks, article_dict, stock_compound, stock_news,
                   compound_before, news_before, sv_k, stock_compounds,
                   stock_news_list, sn_outcome>>
    /\ UNCHANGED <<dvars, pvars, fvars, tvars, mvars>>

\* ---- save_articles_news
\* lines 235-236: delete every StockNews row, commit
SaveNewsDelete ==
    /\ sv_pc = "sn_start"
    /\ stock_news' = <<>>
    /\ sv_pc' = "sn_deleted"
    /\ UNCHANGED <<stocks, article_dict, stock_compound, compound_before,
                   news_before, sv_k, stock_compounds, stock_news_list,
                   sc_outcome, sn_outcome>>
    /\ UNCHANGED <<dvars, pvars, fvars, tvars, mvars>>

\* lines 238-243: restart the id sequence, commit, stock_news = []
SaveNewsRestartSequence ==
    /\ sv_pc = "sn_deleted"
    /\ sv_pc' = "sn_loop"
    /\ sv_k' = 1
    /\ stock_news_list' = <<>>
    /\ UNCHANGED <<stocks, article_dict, stock_compound, stock_news,
                   compound_before, news_before, stock_compounds,
                   sc_outcome, sn_outcome>>
    /\ UNCHANGED <<dvars, pvars, fvars, tvars, mvars>>

\* lines 245-259: the articles of one company that has a Stock row (or of a
\* company with no article: the zip is empty): one row per article
SaveNewsAppend ==
    /\ sv_pc = "sn_loop"
    /\ sv_k <= Len(article_dict)
    /\ \/ article_dict[sv_k].company \in stocks
       \/ article_dict[sv_k].ratings = <<>>
    /\ stock_news_list' = stock_news_list \o NewsRows(article_dict[sv_k])
    /\ sv_k' = sv_k + 1
    /\ UNCHANGED <<stocks, article_dict, stock_compound, stock_news,
                   compound_before, news_before, sv_pc, stock_compounds,
                   sc_outcome, sn_outcome>>
    /\ UNCHANGED <<dvars, pvars, fvars, tvars, mvars>>

\* lines 245-246, 260-261: the articles of one company that has no Stock
\* row: a warning per article, no row
SaveNewsNoStock ==
    /\ sv_pc = "sn_loop"
    /\ sv_k <= Len(article_dict)
    /\ article_dict[sv_k].company \notin stocks
    /\ article_dict[sv_k].ratings # <<>>
    /\ sv_k' = sv_k + 1
    /\ UNCHANGED <<stocks, article_dict, stock_compound, stock_news,
                   compound_before, news_before, sv_pc, stock_compounds,
                   stock_news_list, sc_outcome, sn_outcome>>
    /\ UNCHANGED <<dvars, pvars, fvars, tvars, mvars>>

\* lines 263-266: bulk_save_objects(stock_news) inserts the rows into the
\* table, commit
SaveNewsBulkSave ==
    /\ sv_pc = "sn_loop"
    /\ sv_k > Len(article_dict)
    /\ stock_news' = stock_news \o stock_news_list
    /\ sn_outcome' = "committed"
    /\ sv_pc' = "finished"
    /\ UNCHANGED <<stocks, article_dict, stock_compound, compound_before,
                   news_before, sv_k, stock_compounds, stock_news_list,
                   sc_outcome>>
    /\ UNCHANGED <<dvars, pvars, fvars, tvars, mvars>>

\* lines 267-271: a statement of the try block raises SQLAlchemyError:
\* rollback of the open transaction, log, return
SaveNewsDbError ==
    /\ sv_pc \in {"sn_start", "sn_deleted", "sn_loop"}
    /\ sn_outcome' = "rolled_back"
    /\ sv_pc' = "finished"
    /\ UNCHANGED <<stocks, article_dict, stock_compound, stock_news,
                   compound_before, news_before, sv_k, stock_compounds,
                   stock_news_list, sc_outcome>>
    /\ UNCHANGED <<dvars, pvars, fvars, tvars, mvars>>

SaveNext ==
    \/ SaveCompoundDelete
    \/ SaveCompoundRestartSequence
    \/ SaveCompoundNoStock
    \/ SaveCompoundAppend
    \/ SaveCompoundZeroDivision
    \/ SaveCompoundBulkSave
    \/ SaveCompoundDbError
    \/ SaveNewsDelete
    \/ SaveNewsRestartSequence
    \/ SaveNewsAppend
    \/ SaveNewsNoStock
    \/ SaveNewsBulkSave
    \/ SaveNewsDbError

-----------------------------------------------------------------------------
(***************************************************************************)
(* Collection: fetch_article_content, from the dict of get_companies_news  *)
(* to the call of save_compound (line 115), where the persistence          *)
(* component takes over.  A company name is a sequence of one-character    *)
(* strings; a link is the pair <<company index, position>>.  The page      *)
(* behind a link and the analysis of its article are the same whenever the *)
(* link is processed.                                                      *)
(***************************************************************************)
FetchCompanies ==
    <<
      <<"A", ",", " ", "I", "n", "c", ".">>,
      <<"B", " ", "I", "n", "c", ".">>
    >>

\* str.replace(old, new): the occurrences of old, left to right, without
\* overlap
RECURSIVE replace(_, _, _)
replace(s, old, new) ==
    IF Len(s) < Len(old) THEN s
    ELSE IF SubSeq(s, 1, Len(old)) = old
    THEN new \o replace(SubSeq(s, Len(old) + 1, Len(s)), old, new)
    ELSE <<s[1]>> \o replace(Tail(s), old, new)

normalize_company_name(company) ==
    LET company_name == replace(company, <<",", " ", "I", "n", "c", ".">>, <<>>)
    IN  replace(company_name, <<" ", "I", "n", "c", ".">>, <<>>)

\* the dicts get_companies_news can return: the first companies, each with
\* up to MaxLinks links
NewsDicts ==
    UNION {{[c \in 1..k |-> [company |-> FetchCompanies[c],
                             links |-> [n \in 1..cnt[c] |-> <<c, n>>]]] :
              cnt \in [1..k -> 0..MaxLinks]} : k \in 0..Len(FetchCompanies)}

\* what line 100 finds and what analyze_articles returns for a link
TitleOf(news_link) == <<"title", news_link>>
SummaryOf(news_link) == <<"summary", news_link>>
RatingOf(news_link) ==
    IF news_link[2] % 2 = 1 THEN Rating(20, 80, 100) ELSE Rating(60, 40, 50)

\* the exceptions analyze_articles can raise: None.text after the retry
\* budget is exhausted (line 219), the backend's re-raised error (line 166)
\* and the pop from an empty pool (line 150)
AnalysisFailures == {"AttributeError", "error", "IndexError"}

\* articles_dict[key] = value of a dict that keeps insertion order
DictSet(dict, key, value) ==
    IF \E i \in 1..Len(dict) : dict[i].key = key
    THEN [i \in 1..Len(dict) |->
            IF dict[i].key = key THEN [key |-> key, value |-> value]
            ELSE dict[i]]
    ELSE Append(dict, [key |-> key, value |-> value])

\* lines 67-68: news_dict is there and articles_dict is empty
FetchInit ==
    /\ DispatcherIdle
    /\ ParserIdle
    /\ SaveIdle
    /\ TextIdle
    /\ MainIdle
    /\ news_dict \in NewsDicts
    /\ f_pc = "company"
    /\ f_c = 1
    /\ f_n = 0
    /\ titles_list = <<>>
    /\ links_list = <<>>
    /\ summary_list = <<>>
    /\ rating_list = <<>>
    /\ articles_dict = <<>>
    /\ fetch_log = <<>>

Logged(outcome) ==
    Append(fetch_log, [company |-> f_c, link |-> news_dict[f_c].links[f_n],
                       outcome |-> outcome])

\* lines 69-74: the next company, with four empty lists
FetchCompanyStart ==
    /\ f_pc = "company"
    /\ f_c <= Len(news_dict)
    /\ titles_list' = <<>>
    /\ links_list' = <<>>
    /\ summary_list' = <<>>
    /\ rating_list' = <<>>
    /\ f_n' = 1
    /\ f_pc' = "articles"
    /\ UNCHANGED <<news_dict, f_c, articles_dict, fetch_log>>
    /\ UNCHANGED <<dvars, pvars, svars, tvars, mvars>>

\* lines 78, 106-107: requests.get raises (timeout, connection): logged, the
\* loop goes on with the next link
FetchRequestFails ==
    /\ f_pc = "articles"
    /\ f_n <= Len(news_dict[f_c].links)
    /\ fetch_log' = Logged("request_failed")
    /\ f_n' = f_n + 1
    /\ UNCHANGED <<news_dict, f_pc, f_c, titles_list, links_list,
                   summary_list, rating_list, articles_dict>>
    /\ UNCHANGED <<dvars, pvars, svars, tvars, mvars>>

\* lines 82-94: one of the three "continue": a read-more page, no article
\* body, fewer than 2 paragraphs
FetchSkip ==
    /\ f_pc = "articles"
    /\ f_n <= Len(news_dict[f_c].links)
    /\ fetch_log' = Logged("skipped")
    /\ f_n' = f_n + 1
    /\ UNCHANGED <<news_dict, f_pc, f_c, titles_list, links_list,
                   summary_list, rating_list, articles_dict>>
    /\ UNCHANGED <<dvars, pvars, svars, tvars, mvars>>

\* Variant of FetchAnalysisFails that records the article with an empty
\* summary and no rating.
FetchAnalysisFails_RecordsEntry ==
    /\ f_pc = "articles"
    /\ f_n <= Len(news_dict[f_c].links)
    /\ \E failure \in AnalysisFailures : fetch_log' = Logged(failure)
    /\ titles_list' = Append(titles_list, TitleOf(news_dict[f_c].links[f_n]))
    /\ links_list' = Append(links_list, news_dict[f_c].links[f_n])
    /\ summary_list' = Append(summary_list, <<>>)
    /\ rating_list' = Append(rating_list, "None")
    /\ f_n' = f_n + 1
    /\ UNCHANGED <<news_dict, f_pc, f_c, articles_dict>>
    /\ UNCHANGED <<dvars, pvars, svars, tvars, mvars>>

\* Variant of FetchAnalysisFails that leaves the loop over the company's
\* links.
FetchAnalysisFails_LeavesCompany ==
    /\ f_pc = "articles"
    /\ f_n <= Len(news_dict[f_c].links)
    /\ \E failure \in AnalysisFailures : fetch_log' = Logged(failure)
    /\ f_n' = Len(news_dict[f_c].links) + 1
    /\ UNCHANGED <<news_dict, f_pc, f_c, titles_list, links_list,
                   summary_list, rating_list, articles_dict>>
    /\ UNCHANGED <<dvars, pvars, svars, tvars, mvars>>

\* lines 97, 106-107: analyze_articles raises; "except Exception" inside the
\* loop over the links logs it, the four lists are as they were and the
\* loop goes on with the next link
FetchAnalysisFails ==
    /\ f_pc = "articles"
    /\ f_n <= Len(news_dict[f_c].links)
    /\ \E failure \in AnalysisFailures : fetch_log' = Logged(failure)
    /\ f_n' = f_n + 1
    /\ UNCHANGED <<news_dict, f_pc, f_c, titles_list, links_list,
                   summary_list, rating_list, articles_dict>>
    /\ UNCHANGED <<dvars, pvars, svars, tvars, mvars>>

\* lines 97-105: the article is analysed and the page has its title: one
\* entry in each of the four lists
FetchTitled ==
    /\ f_pc = "articles"
    /\ f_n <= Len(news_dict[f_c].links)
    /\ LET news_link == news_dict[f_c].links[f_n] IN
          /\ titles_list' = Append(titles_list, TitleOf(news_link))
          /\ links_list' = Append(links_list, news_link)
          /\ summary_list' = Append(summary_list, SummaryOf(news_link))
          /\ rating_list' = Append(rating_list, RatingOf(news_link))
    /\ fetch_log' = Logged("titled")
    /\ f_n' = f_n + 1
    /\ UNCHANGED <<news_dict, f_pc, f_c, articles_dict>>
    /\ UNCHANGED <<dvars, pvars, svars, tvars, mvars>>

\* Variant of FetchUntitled that keeps the summary and the rating of the
\* article without a title.
FetchUntitled_KeepsAnalysis ==
    /\ f_pc = "articles"
    /\ f_n <= Len(news_dict[f_c].links)
    /\ fetch_log' = Logged("untitled")
    /\ summary_list' = Append(summary_list, SummaryOf(news_dict[f_c].links[f_n]))
    /\ rating_list' = Append(rating_list, RatingOf(news_dict[f_c].links[f_n]))
    /\ f_n' = f_n + 1
    /\ UNCHANGED <<news_dict, f_pc, f_c, titles_list, links_list,
                   articles_dict>>
    /\ UNCHANGED <<dvars, pvars, svars, tvars, mvars>>

\* lines 97-101: the article is analysed and the page has no title element:
\* no entry
FetchUntitled ==
    /\ f_pc = "articles"
    /\ f_n <= Len(news_dict[f_c].links)
    /\ fetch_log' = Logged("untitled")
    /\ f_n' = f_n + 1
    /\ UNCHANGED <<news_dict, f_pc, f_c, titles_list, links_list,
                   summary_list, rating_list, articles_dict>>
    /\ UNCHANGED <<dvars, pvars, svars, tvars, mvars>>

\* lines 108-112: the links of the company are through: its lists go into
\* articles_dict under the normalized name
FetchCompanyFinish ==
    /\ f_pc = "articles"
    /\ f_n > Len(news_dict[f_c].links)
    /\ articles_dict' =
          DictSet(articles_dict, normalize_company_name(news_dict[f_c].company),
                  <<titles_list, links_list, summary_list, rating_list>>)
    /\ f_c' = f_c + 1
    /\ f_pc' = "company"
    /\ UNCHANGED <<news_dict, f_n, titles_list, links_list, summary_list,
                   rating_list, fetch_log>>
    /\ UNCHANGED <<dvars, pvars, svars, tvars, mvars>>

\* line 115: the companies are through; save_compound(articles_dict) is
\* called
FetchCallSave ==
    /\ f_pc = "company"
    /\ f_c > Len(news_dict)
    /\ f_pc' = "save"
    /\ UNCHANGED <<news_dict, f_c, f_n, titles_list, links_list,
                   summary_list, rating_list, articles_dict, fetch_log>>
    /\ UNCHANGED <<dvars, pvars, svars, tvars, mvars>>

FetchNext ==
    \/ FetchCompanyStart
    \/ FetchRequestFails
    \/ FetchSkip
    \/ FetchAnalysisFails
    \/ FetchTitled
    \/ FetchUntitled
    \/ FetchCompanyFinish
    \/ FetchCallSave

-----------------------------------------------------------------------------
(***************************************************************************)
(* Normalizer: text_processing and the functions it calls.  The NLTK       *)
(* tokenizers are modelled by what they do on the texts of the model: the  *)
(* sentence tokenizer ends a sentence at ".", "!" or "?" followed by white *)
(* space; the word tokenizer, which gets words and white space only, gives *)
(* the words and splits "cannot" into "can" and "not".                     *)
(***************************************************************************)
WordChars ==
    {UpperCaseLetters[i] : i \in 1..26} \cup {LowerCaseLetters[i] : i \in 1..26}
        \cup {DecimalDigits[i] : i \in 1..10} \cup {"_"}
WhiteSpace == {" ", "\n", "\t"}
SentenceEnd == {".", "!", "?"}

\* a sample of stopwords.words("english")
stop_words ==
    {<<"t", "h", "e">>, <<"i", "t">>, <<"i", "s">>, <<"c", "a", "n">>,
     <<"n", "o", "t">>}

UpperChar(c) ==
    IF \E i \in 1..26 : LowerCaseLetters[i] = c
    THEN UpperCaseLetters[CHOOSE i \in 1..26 : LowerCaseLetters[i] = c]
    ELSE c

\* the number of leading characters of s that are in set
RECURSIVE LeadingIn(_, _)
LeadingIn(s, set) ==
    IF s = <<>> \/ s[1] \notin set THEN 0 ELSE 1 + LeadingIn(Tail(s), set)

\* the number of trailing characters of s that are in set
RECURSIVE TrailingIn(_, _)
TrailingIn(s, set) ==
    IF s = <<>> \/ s[Len(s)] \notin set THEN 0
    ELSE 1 + TrailingIn(SubSeq(s, 1, Len(s) - 1), set)

\* the number of leading characters of s that are not in set
RECURSIVE LeadingNotIn(_, _)
LeadingNotIn(s, set) ==
    IF s = <<>> \/ s[1] \in set THEN 0 ELSE 1 + LeadingNotIn(Tail(s), set)

\* str.split(): the words between white space
RECURSIVE split(_)
split(s) ==
    IF s = <<>> THEN <<>>
    ELSE IF s[1] \in WhiteSpace THEN split(Tail(s))
    ELSE LET n == LeadingNotIn(s, WhiteSpace)
         IN  <<SubSeq(s, 1, n)>> \o split(SubSeq(s, n + 1, Len(s)))

\* sep.join(list)
RECURSIVE join(_, _)
join(sep, list) ==
    IF list = <<>> THEN <<>>
    ELSE IF Len(list) = 1 THEN list[1]
    ELSE list[1] \o sep \o join(sep, Tail(list))

\* the end of the first sentence of s: the first ".", "!" or "?" that white
\* space follows; 0 if there is none
RECURSIVE SentenceBreak(_, _)
SentenceBreak(s, i) ==
    IF i >= Len(s) THEN 0
    ELSE IF s[i] \in SentenceEnd /\ s[i + 1] \in WhiteSpace THEN i
    ELSE SentenceBreak(s, i + 1)

\* nltk.tokenize.sent_tokenize
RECURSIVE article_tokenization(_)
article_tokenization(article) ==
    LET t == SubSeq(article, LeadingIn(article, WhiteSpace) + 1, Len(article))
        b == SentenceBreak(t, 1)
    IN  IF t = <<>> THEN <<>>
        ELSE IF b > 0
        THEN <<SubSeq(t, 1, b)>> \o article_tokenization(SubSeq(t, b + 1, Len(t)))
        ELSE <<SubSeq(t, 1, Len(t) - TrailingIn(t, WhiteSpace))>>

\* the length of the match of \(<prefix>\w+\) at the head of s, 0 if none
ParenthesisMatch(s, prefix) ==
    LET p == 1 + Len(prefix)
        w == LeadingIn(SubSeq(s, p + 1, Len(s)), WordChars)
    IN  IF /\ Len(s) >= p + 2
           /\ s[1] = "("
           /\ SubSeq(s, 2, p) = prefix
           /\ w >= 1
           /\ p + w + 1 <= Len(s)
           /\ s[p + w + 1] = ")"
        THEN p + w + 1
        ELSE 0

\* re.sub of \(<prefix>\w+\) by the empty string
RECURSIVE RemoveParentheses(_, _)
RemoveParentheses(s, prefix) ==
    IF s = <<>> THEN <<>>
    ELSE LET m == ParenthesisMatch(s, prefix)
         IN  IF m > 0 THEN RemoveParentheses(SubSeq(s, m + 1, Len(s)), prefix)
             ELSE <<s[1]>> \o RemoveParentheses(Tail(s), prefix)

SUPERFLUOUS_PATTERN_1 == <<>>
SUPERFLUOUS_PATTERN_2 == <<"N", "A", "S", "D", "A", "Q", ":", " ">>

delete_superfluous(article) ==
    RemoveParentheses(RemoveParentheses(article, SUPERFLUOUS_PATTERN_1),
                      SUPERFLUOUS_PATTERN_2)

\* re.sub of [^\w\s] by the empty string
delete_punctuation(article) ==
    SelectSeq(article, LAMBDA ch : ch \in WordChars \cup WhiteSpace)

\* nltk.tokenize.word_tokenize on words and white space
RECURSIVE SplitContractions(_)
SplitContractions(words) ==
    IF words = <<>> THEN <<>>
    ELSE IF lower(words[1]) = <<"c", "a", "n", "n", "o", "t">>
    THEN <<SubSeq(words[1], 1, 3), SubSeq(words[1], 4, 6)>>
            \o SplitContractions(Tail(words))
    ELSE <<words[1]>> \o SplitContractions(Tail(words))

sentence_tokenization(sentence) == SplitContractions(split(sentence))

delete_stop_words(article_list) ==
    SelectSeq(article_list, LAMBDA word : lower(word) \notin stop_words)

\* Variant of capitalize that swaps the case of every letter.
capitalize_SwapCase(s) ==
    <<>> \o [i \in 1..Len(s) |->
               IF s[i] \in {UpperCaseLetters[k] : k \in 1..26}
               THEN LowerChar(s[i]) ELSE UpperChar(s[i])]

\* str.capitalize(): the first character in upper case, the rest in lower
capitalize(s) ==
    IF s = <<>> THEN <<>> ELSE <<UpperChar(s[1])>> \o lower(Tail(s))

\* re.sub(r'([.!?])(\w)', r'\1 \2', sentence)
RECURSIVE AddSpacing(_)
AddSpacing(s) ==
    IF Len(s) < 2 THEN s
    ELSE IF s[1] \in SentenceEnd /\ s[2] \in WordChars
    THEN <<s[1], " ", s[2]>> \o AddSpacing(SubSeq(s, 3, Len(s)))
    ELSE <<s[1]>> \o AddSpacing(Tail(s))

text_processing(text) ==
    LET sentences == article_tokenization(text)
        words_list ==
            [i \in 1..Len(sentences) |->
                delete_stop_words(sentence_tokenization(
                    delete_punctuation(delete_superfluous(sentences[i]))))]
        sentences_list ==
            [i \in 1..Len(words_list) |->
                AddSpacing(capitalize(join(<<" ">>, words_list[i])))]
    IN  join(<<".", " ">>, sentences_list)

\* the pieces of the article texts
PieceApple == <<"A", "p", "p", "l", "e", " ">>
PieceShares == <<"S", "h", "a", "r", "e", "s", " ">>
PieceRose == <<"r", "o", "s", "e", " ">>
PieceThe == <<"t", "h", "e", " ">>
PieceCannot == <<"C", "a", "n", "n", "o", "t", " ">>
PieceTicker == <<"(", "A", "A", "P", "L", ")", " ">>
PieceUp == <<"u", "p", ".", " ">>
PieceIT == <<"I", "T", " ">>
Pieces ==
    {PieceApple, PieceShares, PieceRose, PieceThe,
     PieceCannot, PieceTicker, PieceUp, PieceIT}

\* every concatenation of at most MaxPieces pieces
ArticleTexts ==
    UNION {{Concat(ps) : ps \in [1..n -> Pieces]} : n \in 0..MaxPieces}

TextInit ==
    /\ DispatcherIdle
    /\ ParserIdle
    /\ SaveIdle
    /\ FetchIdle
    /\ MainIdle
    /\ article_text \in ArticleTexts
    /\ processed = <<>>
    /\ t_pc = "ready"

\* one call of text_processing: on the article text first, then on what the
\* call before returned
TextProcessing ==
    /\ t_pc = "ready"
    /\ Len(processed) < MaxPasses
    /\ processed' = Append(processed,
          text_processing(IF processed = <<>> THEN article_text
                          ELSE processed[Len(processed)]))
    /\ UNCHANGED <<article_text, t_pc>>
    /\ UNCHANGED <<dvars, pvars, svars, fvars, mvars>>

TextNext == TextProcessing

-----------------------------------------------------------------------------
(***************************************************************************)
(* Analysis of one article: article_analyzer.main, with ai_analyzer and    *)
(* response_processing.  main runs the dispatcher (the actions above) and  *)
(* get_rate (the action GetRate).                                          *)
(***************************************************************************)
StartsWith(s, i, lit) ==
    /\ i + Len(lit) - 1 <= Len(s)
    /\ SubSeq(s, i, i + Len(lit) - 1) = lit

\* .*? up to lit: the first position from j on where lit begins, no newline
\* before it; 0 if there is none
RECURSIVE LazyTo(_, _, _)
LazyTo(s, j, lit) ==
    IF j > Len(s) THEN 0
    ELSE IF StartsWith(s, j, lit) THEN j
    ELSE IF s[j] = "\n" THEN 0
    ELSE LazyTo(s, j + 1, lit)

\* \*\*.*?\*\* at the head of s: the length of the match, 0 if none
BoldMatch(s) ==
    IF StartsWith(s, 1, <<"*", "*">>)
    THEN LET k == LazyTo(s, 3, <<"*", "*">>)
         IN  IF k > 0 THEN k + 1 ELSE 0
    ELSE 0

\* ', '\n\s*\n', '\n\n at position i of s (the rest of the second
\* alternative of the first pattern): the position of its last character, 0
\* if it does not match
QuoteTailEnd(s, i) ==
    IF StartsWith(s, i, <<"'", ",", " ", "'", "\n">>)
    THEN LET w == LeadingIn(SubSeq(s, i + 5, Len(s)), WhiteSpace)
         IN  IF /\ w >= 1
                /\ s[i + 4 + w] = "\n"
                /\ StartsWith(s, i + 5 + w, <<"'", ",", " ", "'", "\n", "\n">>)
             THEN i + 10 + w
             ELSE 0
    ELSE 0

\* ##.*?## followed by that rest, from position j of the lazy part on
RECURSIVE HeadingQuoteEnd(_, _)
HeadingQuoteEnd(s, j) ==
    IF j > Len(s) THEN 0
    ELSE IF StartsWith(s, j, <<"#", "#">>) /\ QuoteTailEnd(s, j + 2) > 0
    THEN QuoteTailEnd(s, j + 2)
    ELSE IF s[j] = "\n" THEN 0
    ELSE HeadingQuoteEnd(s, j + 1)

\* the first element of patterns_to_remove (two adjacent string literals,
\* one pattern): \*\*.*?\*\*|##.*?##', '\n\s*\n', '\n\n
Pattern1Match(s) ==
    IF BoldMatch(s) > 0 THEN BoldMatch(s)
    ELSE IF StartsWith(s, 1, <<"#", "#">>) THEN HeadingQuoteEnd(s, 3)
    ELSE 0

RECURSIVE RemovePattern1(_)
RemovePattern1(s) ==
    IF s = <<>> THEN <<>>
    ELSE LET m == Pattern1Match(s)
         IN  IF m > 0 THEN RemovePattern1(SubSeq(s, m + 1, Len(s)))
             ELSE <<s[1]>> \o RemovePattern1(Tail(s))

\* ##.* : from ## to the end of the line
RECURSIVE RemoveHeadings(_)
RemoveHeadings(s) ==
    IF s = <<>> THEN <<>>
    ELSE IF StartsWith(s, 1, <<"#", "#">>)
    THEN RemoveHeadings(SubSeq(s, 1 + LeadingNotIn(s, {"\n"}), Len(s)))
    ELSE <<s[1]>> \o RemoveHeadings(Tail(s))

\* \(.*?\) : from ( to the next ) of the line
RECURSIVE RemoveBrackets(_)
RemoveBrackets(s) ==
    IF s = <<>> THEN <<>>
    ELSE LET k == IF s[1] = "(" THEN LazyTo(s, 2, <<")">>) ELSE 0
         IN  IF k > 0 THEN RemoveBrackets(SubSeq(s, k + 1, Len(s)))
             ELSE <<s[1]>> \o RemoveBrackets(Tail(s))

\* \b\d+\. : digits that begin a word, with the dot after them; before is
\* whether a word character precedes s
RECURSIVE RemoveNumbering(_, _)
RemoveNumbering(s, before) ==
    IF s = <<>> THEN <<>>
    ELSE LET d == LeadingIn(s, {DecimalDigits[i] : i \in 1..10})
         IN  IF ~before /\ d >= 1 /\ StartsWith(s, d + 1, <<".">>)
             THEN RemoveNumbering(SubSeq(s, d + 2, Len(s)), FALSE)
             ELSE <<s[1]>> \o RemoveNumbering(Tail(s), s[1] \in WordChars)

\* \* : every asterisk
RemoveStars(s) == SelectSeq(s, LAMBDA ch : ch # "*")

\* re.sub(r'\n+', '\n', response)
RECURSIVE CollapseNewlines(_)
CollapseNewlines(s) ==
    IF Len(s) < 2 THEN s
    ELSE IF s[1] = "\n" /\ s[2] = "\n" THEN CollapseNewlines(Tail(s))
    ELSE <<s[1]>> \o CollapseNewlines(Tail(s))

\* str.strip()
strip(s) ==
    IF LeadingIn(s, WhiteSpace) = Len(s) THEN <<>>
    ELSE SubSeq(s, LeadingIn(s, WhiteSpace) + 1, Len(s) - TrailingIn(s, WhiteSpace))

response_processing(response) ==
    strip(CollapseNewlines(RemoveStars(RemoveNumbering(RemoveBrackets(
        RemoveHeadings(RemovePattern1(response))), FALSE))))

\* the articles handed to main
MainArticles == {PieceApple \o PieceRose, PieceThe \o PieceUp \o PieceTicker}

\* the texts of the backend's responses: nothing, a summary in Markdown or
\* plain prose, then nothing or one fragment of a forecast
FragMarkdown ==
    <<"#", "#", " ", "S", "u", "m", "m", "a", "r", "y", "\n", "\n", "*",
      "*", "A", "p", "p", "l", "e", "*", "*", " ", "r", "o", "s", "e", ".",
      "\n", "1", ".", " ", "U", "p", "*", " ">>
ResponseTexts ==
    {head \o tail : head \in {<<>>, FragMarkdown, FragProse},
                    tail \in {<<>>} \cup Fragments}

\* the process has started: MODELS = [] (line 31); main is entered with an
\* article
MainInit ==
    /\ ParserIdle
    /\ SaveIdle
    /\ FetchIdle
    /\ TextIdle
    /\ MODELS = <<>>
    /\ rp_pc = "idle"
    /\ attempt = 0
    /\ delay = initial_delay
    /\ sleeps = <<>>
    /\ answers = <<>>
    /\ result = "none"
    /\ poolAtEntry = 0
    /\ poolAtStart = 0
    /\ poolAtAttempt = 0
    /\ calls = 0
    /\ m_pc = "start"
    /\ m_article \in MainArticles
    /\ processed_article = <<>>
    /\ ready_article = <<>>
    /\ m_calls = 0
    /\ m_error = "none"

\* line 304: processed_article = text_processing(article)
MainTextProcessing ==
    /\ m_pc = "start"
    /\ processed_article' = text_processing(m_article)
    /\ m_pc' = "ai_analyzer"
    /\ UNCHANGED <<m_article, ready_article, m_calls, m_error>>
    /\ UNCHANGED <<dvars, pvars, svars, fvars, tvars>>

\* lines 305, 219: ai_analyzer calls request_processing
MainRequestProcessing ==
    /\ m_pc = "ai_analyzer"
    /\ calls = m_calls
    /\ Call

\* lines 149-166: the attempts of that call
MainAttempt ==
    /\ m_pc = "ai_analyzer"
    /\ calls = m_calls + 1
    /\ \/ AttemptPoolEmpty
       \/ AttemptSuccess
       \/ AttemptFalsy
       \/ AttemptRateLimited
       \/ AttemptOtherError

\* lines 219, 305: request_processing returned a response; its text is the
\* summary
MainResponseText ==
    /\ m_pc = "ai_analyzer"
    /\ calls = m_calls + 1
    /\ rp_pc = "returned"
    /\ result = "response"
    /\ summary' \in ResponseTexts
    /\ rating' = "none"
    /\ gr_pc' = "start"
    /\ m_pc' = "get_rate"
    /\ UNCHANGED <<m_article, processed_article, ready_article, m_calls,
                   m_error>>
    /\ UNCHANGED <<dvars, svars, fvars, tvars>>

\* line 219: request_processing returned None (line 169) and None.text
\* raises AttributeError, or request_processing raised: the exception leaves
\* ai_analyzer and main
MainAnalyzerRaises ==
    /\ m_pc = "ai_analyzer"
    /\ calls = m_calls + 1
    /\ \/ rp_pc = "returned" /\ result = "None" /\ m_error' = "AttributeError"
       \/ rp_pc = "raised" /\ m_error' = result
    /\ m_pc' = "raised"
    /\ UNCHANGED <<m_article, processed_article, ready_article, m_calls>>
    /\ UNCHANGED <<dvars, pvars, svars, fvars, tvars>>

\* line 306: rating = get_rate(summary)
MainGetRate ==
    /\ m_pc = "get_rate"
    /\ GetRate

\* lines 307-308: ready_article = response_processing(summary), return; or
\* the exception of get_rate leaves main
MainResponseProcessing ==
    /\ m_pc = "get_rate"
    /\ gr_pc \in {"done", "raised"}
    /\ IF gr_pc = "raised"
       THEN /\ m_pc' = "raised"
            /\ m_error' = "get_rate"
            /\ UNCHANGED ready_article
       ELSE /\ m_pc' = "returned"
            /\ ready_article' = response_processing(summary)
            /\ UNCHANGED m_error
    /\ UNCHANGED <<m_article, processed_article, m_calls>>
    /\ UNCHANGED <<dvars, pvars, svars, fvars, tvars>>

\* analyze_articles (article_parser.py, line 221) calls main for the next
\* article; the locals of the call before are gone
MainEnter ==
    /\ m_pc \in {"returned", "raised"}
    /\ calls < MaxCalls
    /\ m_article' \in MainArticles
    /\ m_pc' = "start"
    /\ processed_article' = <<>>
    /\ ready_article' = <<>>
    /\ m_calls' = calls
    /\ m_error' = "none"
    /\ summary' = <<>>
    /\ rating' = "none"
    /\ gr_pc' = "idle"
    /\ UNCHANGED <<dvars, svars, fvars, tvars>>

MainNext ==
    \/ MainTextProcessing
    \/ MainRequestProcessing
    \/ MainAttempt
    \/ MainResponseText
    \/ MainAnalyzerRaises
    \/ MainGetRate
    \/ MainResponseProcessing
    \/ MainEnter

-----------------------------------------------------------------------------
(* Specifications, one per component *)
SpecDispatcher == DispatcherInit /\ [][DispatcherNext]_vars

SpecParser == ParserInit /\ [][ParserNext]_vars

SpecFetch == FetchInit /\ [][FetchNext]_vars

SpecText == TextInit /\ [][TextNext]_vars

SpecMain == MainInit /\ [][MainNext]_vars

SpecSave == SaveInit /\ [][SaveNext]_vars

-----------------------------------------------------------------------------
(***************************************************************************)
(* Properties of the dispatcher                                            *)
(***************************************************************************)
\* k rate-limited answers
RateLimitedRun(k) == [i \in 1..k |-> "429"]
\* the backoff delays 10, 15, ..., 10 + 5(k-1)
BackoffDelays(k) == [i \in 1..k |-> 10 + 5 * (i - 1)]

\* C2: after request_processing returns a successful response, the pool
\* holds as many handles as when the successful attempt began (the handle is
\* back in the pool).
C2_HandleBackAfterSuccess ==
    (rp_pc = "returned" /\ result = "response") => Len(MODELS) = poolAtAttempt

\* C3: when the backend raises an error without the '429' marker, the
\* handle is back in the pool when the error propagates: the pool size
\* equals its size when the attempt began.
C3_HandleBackAfterHardFailure ==
    (rp_pc = "raised" /\ result = "error") => Len(MODELS) = poolAtAttempt

\* C6 (as stated): at most 6 submissions per call; six rate-limited attempts
\* end the call by returning None (no exception), with the pool holding the
\* same number of handles as before the call.
C6_ExhaustedPoolAsBeforeCall ==
    /\ Len(answers) <= 6
    /\ answers = RateLimitedRun(6) =>
          /\ rp_pc = "returned"
          /\ result = "None"
          /\ Len(MODELS) = poolAtEntry

\* C6 (amended): at most 6 submissions per call; six rate-limited attempts
\* end the call by returning None (no exception), with the pool holding the
\* same number of handles as after the lazy population at the start of the
\* call.
C6_ExhaustedPoolAsPopulated ==
    /\ Len(answers) <= 6
    /\ answers = RateLimitedRun(6) =>
          /\ rp_pc = "returned"
          /\ result = "None"
          /\ Len(MODELS) = poolAtStart

C6_Witness ==
    /\ answers = RateLimitedRun(6)
    /\ result = "None"
    /\ poolAtEntry = 2

\* C7: for every k in 0..5, k rate-limited answers followed by a success
\* make the call return the response, and its sleeps are, in order,
\* 10, 15, ..., 10 + 5(k-1) and then one cooldown of 10.
C7_BackoffThenSuccess ==
    \A k \in 0..5 :
        answers = RateLimitedRun(k) \o <<"response">> =>
            /\ rp_pc = "returned"
            /\ result = "response"
            /\ sleeps = BackoffDelays(k) \o <<10>>

C7_Witness ==
    /\ answers = RateLimitedRun(5) \o <<"response">>
    /\ sleeps = <<10, 15, 20, 25, 30, 10>>
    /\ result = "response"

\* C19: when the backend raises an error without the '429' marker, the
\* dispatcher makes no further attempt and does not sleep for it: the error
\* propagates at once, after any number k = 0..5 of rate-limited attempts
\* (whose backoff sleeps are the only ones).
C19_HardErrorPropagatesAtOnce ==
    \A k \in 0..5 :
        answers = RateLimitedRun(k) \o <<"error">> =>
            /\ rp_pc = "raised"
            /\ result = "error"
            /\ attempt = k
            /\ sleeps = BackoffDelays(k)

C19_Witness ==
    /\ answers = RateLimitedRun(5) \o <<"error">>
    /\ rp_pc = "raised"
    /\ sleeps = <<10, 15, 20, 25, 30>>

-----------------------------------------------------------------------------
(***************************************************************************)
(* Properties of the parser                                                *)
(***************************************************************************)
\* C1: for every text that holds neither a decrease-first forecast nor a
\* reversed forecast, get_rate returns Decrease Probability 50 and Increase
\* Probability 50.
C1_DefaultForecastIsFiftyFifty ==
    (/\ gr_pc = "done"
     /\ findall(forecast_pattern_1, lower(summary)) = <<>>
     /\ findall(forecast_pattern_2, lower(summary)) = <<>>)
    => (rating.Decrease_Probability = 50 /\ rating.Increase_Probability = 50)

-----------------------------------------------------------------------------
(***************************************************************************)
(* Properties of aggregation and persistence                               *)
(***************************************************************************)
RECURSIVE SumSeq(_)
SumSeq(s) == IF Len(s) = 0 THEN 0 ELSE s[1] + SumSeq(SubSeq(s, 2, Len(s)))

\* sum of informativeness, and the informativeness-weighted sums
TotalWeight(rl) == SumSeq([i \in 1..Len(rl) |-> rl[i].Informativeness])
WeightedDecrease(rl) ==
    SumSeq([i \in 1..Len(rl) |->
              rl[i].Decrease_Probability * rl[i].Informativeness])
WeightedIncrease(rl) ==
    SumSeq([i \in 1..Len(rl) |->
              rl[i].Increase_Probability * rl[i].Informativeness])

\* h hundredths is num/den rounded to 2 decimals
RoundedTo2(h, num, den) ==
    /\ 2 * (h * den - 100 * num) <= den
    /\ 2 * (100 * num - h * den) <= den

HasRow(table, company) ==
    \E j \in 1..Len(table) : table[j].stock_id = company

\* the compound loop of save_compound has aggregated entry i of the batch
Aggregated(i) ==
    \/ sv_pc = "sc_loop" /\ sv_k > i
    \/ sv_pc = "crashed" /\ sv_k = i

ProbabilitiesInRange(rl) ==
    \A i \in 1..Len(rl) : /\ rl[i].Decrease_Probability \in 0..100
                          /\ rl[i].Increase_Probability \in 0..100

\* the rows save_compound has computed, and those it has committed
ComputedCompounds ==
    IF sc_outcome = "committed" THEN stock_compound ELSE stock_compounds

\* C4: a company of the batch with zero total informativeness gets no
\* compound row, and that is all: the other companies that have informative
\* ratings and a Stock row get theirs, and the run reaches
\* save_articles_news.
C4_ZeroInformativenessSkipsThatCompanyOnly ==
    (\E i \in 1..Len(article_dict) : TotalWeight(article_dict[i].ratings) = 0)
    => /\ sv_pc # "crashed"
       /\ sc_outcome = "committed" =>
            \A i \in 1..Len(article_dict) :
               LET e == article_dict[i] IN
               /\ (e.company \in stocks /\ TotalWeight(e.ratings) > 0)
                     => HasRow(stock_compound, e.company)
               /\ TotalWeight(e.ratings) = 0
                     => ~HasRow(stock_compound, e.company)

\* C5: when save_compound or save_articles_news ends in the rollback of a
\* persistence error, its table holds exactly the rows it held before the
\* call.
C5_RollbackRestoresTable ==
    /\ sc_outcome = "rolled_back" => stock_compound = compound_before
    /\ sn_outcome = "rolled_back" => stock_news = news_before

\* C8: aggregating an empty rating list, or one whose ratings all have
\* informativeness 0, ends in an error; it gives no pair and no compound
\* row, computed or stored.
C8_NothingInformativeIsAnError ==
    \A i \in 1..Len(article_dict) :
       LET e == article_dict[i] IN
       (/\ Aggregated(i)
        /\ e.company \in stocks
        /\ TotalWeight(e.ratings) = 0)
       => /\ sc_outcome = "ZeroDivisionError"
          /\ ~HasRow(stock_compounds, e.company)
          /\ ~HasRow(stock_compound, e.company)

C8_Witness ==
    /\ sv_pc = "crashed"
    /\ sv_k = 2
    /\ article_dict[2].ratings = <<Rating(50, 50, 0)>>
    /\ Len(stock_compounds) = 1

\* C9: for a rating list of positive total informativeness the compound row
\* holds fall = sum(decrease * informativeness) / sum(informativeness) and
\* rise = sum(increase * informativeness) / sum(informativeness), each
\* rounded to 2 decimals; ratings (20,80,100) and (60,40,50) give 33.33 and
\* 66.67.
C9_WeightedAverageRounded ==
    /\ \A j \in 1..Len(ComputedCompounds) :
          \E i \in 1..Len(article_dict) :
             LET rl == article_dict[i].ratings
                 row == ComputedCompounds[j]
             IN  /\ article_dict[i].company = row.stock_id
                 /\ TotalWeight(rl) > 0
                 /\ RoundedTo2(row.fall_probability, WeightedDecrease(rl),
                               TotalWeight(rl))
                 /\ RoundedTo2(row.rise_probability, WeightedIncrease(rl),
                               TotalWeight(rl))
                 /\ rl = <<Rating(20, 80, 100), Rating(60, 40, 50)>>
                       => /\ row.fall_probability = 3333
                          /\ row.rise_probability = 6667
    /\ \A i \in 1..Len(article_dict) :
          (/\ Aggregated(i)
           /\ article_dict[i].company \in stocks
           /\ TotalWeight(article_dict[i].ratings) > 0)
          => HasRow(stock_compounds, article_dict[i].company)

C9_Witness ==
    /\ sc_outcome = "committed"
    /\ Len(article_dict) = 2
    /\ article_dict[2].ratings = <<Rating(20, 80, 100), Rating(60, 40, 50)>>
    /\ \E j \in 1..Len(stock_compound) :
          stock_compound[j] = [stock_id |-> "B", fall_probability |-> 3333,
                               rise_probability |-> 6667]

\* C10 (as stated): for ratings with probabilities in 0..100 and positive
\* total informativeness, the stored fall and rise probabilities lie in
\* [0, 1].
C10_CompoundInUnitInterval ==
    \A j \in 1..Len(ComputedCompounds) :
       \A i \in 1..Len(article_dict) :
          (/\ article_dict[i].company = ComputedCompounds[j].stock_id
           /\ ProbabilitiesInRange(article_dict[i].ratings))
          => /\ ComputedCompounds[j].fall_probability \in 0..100
             /\ ComputedCompounds[j].rise_probability \in 0..100

\* C10 (amended): for ratings with probabilities in 0..100 and positive
\* total informativeness, the stored fall and rise probabilities lie in
\* [0, 100], the scale of the ratings.
C10_CompoundInPercentInterval ==
    \A j \in 1..Len(ComputedCompounds) :
       \A i \in 1..Len(article_dict) :
          (/\ article_dict[i].company = ComputedCompounds[j].stock_id
           /\ ProbabilitiesInRange(article_dict[i].ratings))
          => /\ ComputedCompounds[j].fall_probability \in 0..10000
             /\ ComputedCompounds[j].rise_probability \in 0..10000

C10_Witness ==
    /\ sc_outcome = "committed"
    /\ \E j \in 1..Len(stock_compound) :
          /\ stock_compound[j].fall_probability = 2000
          /\ stock_compound[j].rise_probability = 8000
          /\ \E i \in 1..Len(article_dict) :
                /\ article_dict[i].company = stock_compound[j].stock_id
                /\ ProbabilitiesInRange(article_dict[i].ratings)

\* the StockNews rows of the first n companies of the batch, those with a
\* Stock row, in the order of the batch
RECURSIVE BatchNewsRows(_)
BatchNewsRows(n) ==
    IF n = 0 THEN <<>>
    ELSE LET e == article_dict[n] IN
         BatchNewsRows(n - 1) \o
            (IF e.company \in stocks
             THEN [i \in 1..Len(e.ratings) |->
                     [stock_id |-> e.company, article |-> i,
                      decrease |-> e.ratings[i].Decrease_Probability,
                      increase |-> e.ratings[i].Increase_Probability,
                      informativeness |-> e.ratings[i].Informativeness]]
             ELSE <<>>)

RowsOf(table, company) ==
    {j \in 1..Len(table) : table[j].stock_id = company}

\* C16: after a run in which save_compound and save_articles_news both
\* complete without error, stock_compound holds exactly one row, derived
\* from the batch, for each company of the batch that has a Stock row, and
\* stock_news exactly the rows of the batch's articles; neither holds a row
\* of an earlier run.
C16_TablesHoldExactlyTheBatch ==
    (sc_outcome = "committed" /\ sn_outcome = "committed") =>
       /\ \A j \in 1..Len(stock_compound) :
             /\ \A o \in 1..Len(OldCompoundRows) :
                   stock_compound[j] # OldCompoundRows[o]
             /\ \E i \in 1..Len(article_dict) :
                   LET rl == article_dict[i].ratings
                       row == stock_compound[j]
                   IN  /\ article_dict[i].company = row.stock_id
                       /\ row.stock_id \in stocks
                       /\ TotalWeight(rl) > 0
                       /\ RoundedTo2(row.fall_probability,
                                     WeightedDecrease(rl), TotalWeight(rl))
                       /\ RoundedTo2(row.rise_probability,
                                     WeightedIncrease(rl), TotalWeight(rl))
       /\ \A i \in 1..Len(article_dict) :
             Cardinality(RowsOf(stock_compound, article_dict[i].company))
                = IF article_dict[i].company \in stocks THEN 1 ELSE 0
       /\ stock_news = BatchNewsRows(Len(article_dict))
       /\ \A j \in 1..Len(stock_news), o \in 1..Len(OldNewsRows) :
             stock_news[j] # OldNewsRows[o]

C16_Witness ==
    /\ sc_outcome = "committed"
    /\ sn_outcome = "committed"
    /\ stocks = {"A", "B"}
    /\ Len(stock_compound) = 2
    /\ Len(stock_news) = 3
    /\ stock_compound[1].stock_id = "A"
    /\ stock_compound[1] # OldCompoundRows[1]

\* the run of save_compound and save_articles_news has ended with no
\* persistence error
EndedWithoutDbError ==
    /\ sv_pc \in {"finished", "crashed"}
    /\ sc_outcome # "rolled_back"
    /\ sn_outcome # "rolled_back"

\* C17: a company of the batch with no Stock row gets no row and raises no
\* error, and the rows of every other company of the batch that has a Stock
\* row are written and committed, in stock_compound and in stock_news.
C17_NoStockSkipsThatCompanyOnly ==
    \A i \in 1..Len(article_dict) :
       article_dict[i].company \notin stocks =>
          /\ ~HasRow(stock_compounds, article_dict[i].company)
          /\ ~HasRow(stock_news_list, article_dict[i].company)
          /\ EndedWithoutDbError =>
                \A j \in 1..Len(article_dict) :
                   article_dict[j].company \in stocks =>
                      /\ sc_outcome = "committed"
                      /\ sn_outcome = "committed"
                      /\ HasRow(stock_compound, article_dict[j].company)
                      /\ article_dict[j].ratings # <<>> =>
                            HasRow(stock_news, article_dict[j].company)

-----------------------------------------------------------------------------
(***************************************************************************)
(* Further properties of the parser.  The texts are concatenations of      *)
(* fragments, each of which begins with its own first character and ends   *)
(* with its own last one, so a forecast in a text is an occurrence of a    *)
(* forecast fragment.                                                      *)
(***************************************************************************)
OccursAt(frag, text, i) ==
    /\ i + Len(frag) - 1 <= Len(text)
    /\ SubSeq(text, i, i + Len(frag) - 1) = frag
Occurs(frag, text) == \E i \in 1..Len(text) : OccursAt(frag, text, i)
\* the first position at which frag occurs in text
FirstPos(frag, text) ==
    CHOOSE i \in 1..Len(text) :
        /\ OccursAt(frag, text, i)
        /\ \A j \in 1..(i - 1) : ~OccursAt(frag, text, j)

\* the decrease-first forecasts of the texts, with their P and Q
DecreaseFirstForecasts ==
    {[frag |-> lower(FragDecreaseFirst), P |-> 30, Q |-> 70],
     [frag |-> lower(FragDecreaseFirstCapital), P |-> 20, Q |-> 80],
     [frag |-> lower(FragOutOfRange), P |-> 150, Q |-> 0]}

HasDecreaseFirst(text) ==
    \E f \in DecreaseFirstForecasts : Occurs(f.frag, lower(text))
HasReversed(text) == Occurs(lower(FragIncreaseFirst), lower(text))

\* C12: when a decrease-first forecast "(decrease P% | increase Q%)" occurs
\* in the text, in any letter case, get_rate returns Decrease Probability P
\* and Increase Probability Q of the first such occurrence, also when a
\* reversed forecast occurs earlier.
C12_FirstDecreaseFirstForecastWins ==
    gr_pc = "done" =>
        \A f \in DecreaseFirstForecasts :
            (/\ Occurs(f.frag, lower(summary))
             /\ \A g \in DecreaseFirstForecasts :
                   Occurs(g.frag, lower(summary)) =>
                       FirstPos(f.frag, lower(summary))
                           <= FirstPos(g.frag, lower(summary)))
            => /\ rating.Decrease_Probability = f.P
               /\ rating.Increase_Probability = f.Q

C12_Witness ==
    /\ gr_pc = "done"
    /\ summary = FragIncreaseFirst \o FragDecreaseFirstCapital
                     \o FragDecreaseFirst
    /\ rating.Decrease_Probability = 20
    /\ rating.Increase_Probability = 80

\* the text with its first reversed forecast "(increase 60% | decrease 40%)"
\* replaced by "(decrease 40% | increase 60%)"
ReversedForecastRewritten ==
    <<"(", "d", "e", "c", "r", "e", "a", "s", "e", " ", "4", "0", "%", " ",
      "|", " ", "i", "n", "c", "r", "e", "a", "s", "e", " ", "6", "0", "%",
      ")">>
RewriteFirstReversed(text) ==
    LET i == FirstPos(lower(FragIncreaseFirst), lower(text))
    IN  SubSeq(text, 1, i - 1) \o ReversedForecastRewritten
            \o SubSeq(text, i + Len(FragIncreaseFirst), Len(text))

\* C13: for a text that holds the reversed forecast
\* "(increase Q% | decrease P%)" and no decrease-first forecast, get_rate
\* returns Decrease Probability P and Increase Probability Q, the same
\* rating as for the text with "(decrease P% | increase Q%)" in its place.
C13_OrderInvariance ==
    (gr_pc = "done" /\ HasReversed(summary) /\ ~HasDecreaseFirst(summary))
    => /\ rating.Decrease_Probability = 40
       /\ rating.Increase_Probability = 60
       /\ ~get_rate_raises(RewriteFirstReversed(summary))
       /\ rating = get_rate(RewriteFirstReversed(summary))

C13_Witness ==
    /\ gr_pc = "done"
    /\ summary = FragProse \o FragIncreaseFirst \o FragInformativeness
    /\ rating = Rating(40, 60, 80)

C14_WitnessDefault ==
    /\ gr_pc = "done"
    /\ summary = FragDecreaseFirst
    /\ rating = Rating(30, 70, 50)

-----------------------------------------------------------------------------
(***************************************************************************)
(* Properties of the collection                                            *)
(***************************************************************************)
\* what happened to the links of company c, in order
LogOf(c) == SelectSeq(fetch_log, LAMBDA e : e.company = c)

AnalysisFailed(e) == e.outcome \in {"AttributeError", "error", "IndexError"}
\* the failures of the dispatcher: retry budget exhausted, backend error
DispatcherFailed(e) == e.outcome \in {"AttributeError", "error"}

\* the log without the links whose analysis failed
WithoutFailures(log) == SelectSeq(log, LAMBDA e : ~AnalysisFailed(e))

\* the four lists that the analysed and titled links of company c in a log
\* give
EntriesFrom(log, c) ==
    LET kept == SelectSeq(log, LAMBDA e : e.company = c /\ e.outcome = "titled")
    IN  <<[i \in 1..Len(kept) |-> <<"title", kept[i].link>>],
          [i \in 1..Len(kept) |-> kept[i].link],
          [i \in 1..Len(kept) |-> <<"summary", kept[i].link>>],
          [i \in 1..Len(kept) |->
              IF kept[i].link[2] % 2 = 1 THEN Rating(20, 80, 100)
              ELSE Rating(60, 40, 50)]>>

\* company c has been put into articles_dict
CompanyDone(c) == c < f_c \/ f_pc = "save"

\* C11: a link whose analysis fails gives no entry; the next link of the
\* same company is processed next; and the four lists, of the current
\* company and of every company in articles_dict, are those the log gives
\* without the failed links.
C11_FailedArticleIsolated ==
    /\ f_pc = "articles" =>
          <<titles_list, links_list, summary_list, rating_list>>
             = EntriesFrom(WithoutFailures(fetch_log), f_c)
    /\ \A c \in 1..Len(news_dict) :
          /\ CompanyDone(c) =>
                articles_dict[c].value = EntriesFrom(WithoutFailures(fetch_log), c)
          /\ \A i \in 1..Len(LogOf(c)) :
                AnalysisFailed(LogOf(c)[i]) =>
                   /\ \A k \in 1..Len(links_list) :
                         links_list[k] # LogOf(c)[i].link
                   /\ i < Len(news_dict[c].links) =>
                         \/ /\ i < Len(LogOf(c))
                            /\ LogOf(c)[i + 1].link = <<c, i + 1>>
                         \/ /\ i = Len(LogOf(c))
                            /\ f_pc = "articles" /\ f_c = c /\ f_n = i + 1

C11_Witness ==
    /\ f_pc = "save"
    /\ Len(LogOf(1)) = 2
    /\ LogOf(1)[1].outcome = "AttributeError"
    /\ LogOf(1)[2].outcome = "titled"
    /\ articles_dict[1].value[2] = <<<<1, 2>>>>

\* C20 (as stated): after a failure of the dispatcher on one link of a
\* company, no later link of that company is fetched or analysed.
C20_RemainingArticlesAbandoned ==
    \A i \in 1..Len(fetch_log) :
       DispatcherFailed(fetch_log[i]) =>
          \A j \in (i + 1)..Len(fetch_log) :
             fetch_log[j].company # fetch_log[i].company

\* C20 (amended): a failure of the dispatcher on one link abandons that link
\* only: every company put into articles_dict has had each of its links
\* fetched, in order, failures among them or not, and the run goes through
\* every company to the call of save_compound.
C20_OnlyTheFailedArticleAbandoned ==
    \A c \in 1..Len(news_dict) :
       CompanyDone(c) =>
          /\ Len(LogOf(c)) = Len(news_dict[c].links)
          /\ \A i \in 1..Len(LogOf(c)) : LogOf(c)[i].link = news_dict[c].links[i]
          /\ Len(articles_dict) >= c
          /\ articles_dict[c].key = normalize_company_name(news_dict[c].company)

C20_Witness ==
    /\ f_pc = "save"
    /\ Len(news_dict) = 2
    /\ Len(LogOf(1)) = 2
    /\ LogOf(1)[1].outcome = "error"
    /\ LogOf(1)[2].outcome = "titled"
    /\ Len(LogOf(2)) = 2
    /\ Len(articles_dict) = 2

-----------------------------------------------------------------------------
(***************************************************************************)
(* Properties of the normalizer                                            *)
(***************************************************************************)
\* the text has no punctuation: letters, digits, "_" and white space only
NoPunctuation(x) == \A i \in 1..Len(x) : x[i] \in WordChars \cup WhiteSpace
\* no word of the text is a stopword, in any letter case
NoStopwords(x) ==
    \A i \in 1..Len(split(x)) : lower(split(x)[i]) \notin stop_words
\* the text begins with a capital letter
Capitalized(x) ==
    x # <<>> => x[1] \in {UpperCaseLetters[k] : k \in 1..26}

\* C18: for a text x with no stopwords, no punctuation and capitalized,
\* text_processing(text_processing(x)) = text_processing(x).
C18_IdempotentOnCleanText ==
    (/\ Len(processed) >= 2
     /\ NoPunctuation(article_text)
     /\ NoStopwords(article_text)
     /\ Capitalized(article_text))
    => processed[2] = processed[1]

C18_Witness ==
    /\ article_text = PieceCannot \o PieceShares \o PieceRose
    /\ Len(processed) = 2
    /\ processed[1] = <<"S", "h", "a", "r", "e", "s", " ", "r", "o", "s", "e">>
    /\ processed[2] = processed[1]

-----------------------------------------------------------------------------
(***************************************************************************)
(* Properties of the analysis of one article                               *)
(***************************************************************************)
\* for a response text that the dispatcher returned, get_rate returns a
\* rating and response_processing a summary
ParsingNeverRaises ==
    /\ (m_pc = "get_rate" /\ gr_pc # "start") => gr_pc = "done"
    /\ m_pc = "raised" => m_error # "get_rate"
    /\ m_pc = "returned" =>
          /\ gr_pc = "done"
          /\ rating = get_rate(summary)
          /\ m_error = "none"

\* C15: main raises only when the dispatcher exhausted its retry budget
\* (request_processing returned None) or met a backend error that is not a
\* rate limit; for every response text the dispatcher returns, get_rate and
\* response_processing return a rating and a summary without raising.
C15_MainFailsOnlyForDispatcherFailure ==
    /\ m_pc = "raised" =>
          \/ m_error = "AttributeError" /\ result = "None"
          \/ m_error = "error" /\ answers[Len(answers)] = "error"
    /\ ParsingNeverRaises

-----------------------------------------------------------------------------
(***************************************************************************)
(* The four lists of a company                                             *)
(***************************************************************************)
\* four lists of one length, whose entries at one position are the title,
\* the link, the summary and the rating of one article of company c, the
\* articles in the order of the company's links
AlignedLists(lists, c) ==
    LET titles == lists[1]
        links == lists[2]
        summaries == lists[3]
        ratings == lists[4]
    IN  /\ Len(titles) = Len(links)
        /\ Len(summaries) = Len(links)
        /\ Len(ratings) = Len(links)
        /\ \A i \in 1..Len(links) :
              /\ links[i][1] = c
              /\ links[i][2] \in 1..Len(news_dict[c].links)
              /\ titles[i] = <<"title", links[i]>>
              /\ summaries[i] = <<"summary", links[i]>>
              /\ ratings[i] = IF links[i][2] % 2 = 1 THEN Rating(20, 80, 100)
                              ELSE Rating(60, 40, 50)
        /\ \A i, j \in 1..Len(links) : i < j => links[i][2] < links[j][2]

\* C23: for every company and after any sequence of article outcomes
\* (skipped, analysed with title, analysed without title, failed), the four
\* lists of titles, links, summaries and ratings have equal length and
\* their i-th entries come from the same article, in the order the articles
\* were processed; so do the lists stored in articles_dict.
C23_FourListsAligned ==
    /\ f_pc = "articles" =>
          AlignedLists(<<titles_list, links_list, summary_list, rating_list>>,
                       f_c)
    /\ \A c \in 1..Len(articles_dict) :
          /\ Len(articles_dict[c].value) = 4
          /\ AlignedLists(articles_dict[c].value, c)

C23_Witness ==
    /\ f_pc = "save"
    /\ Len(articles_dict) = 2
    /\ articles_dict[1].value[2] = <<<<1, 1>>, <<1, 2>>>>
    /\ Len(articles_dict[1].value[4]) = 2
    /\ Len(LogOf(2)) = 2
    /\ LogOf(2)[1].outcome = "untitled"
    /\ LogOf(2)[2].outcome = "titled"
    /\ articles_dict[2].value[2] = <<<<2, 2>>>>
    /\ articles_dict[2].value[1] = <<<<"title", <<2, 2>>>>>>

-----------------------------------------------------------------------------
(***************************************************************************)
(* The size of the pool                                                    *)
(***************************************************************************)
\* every attempt of the current call got a response that counts as one, a
\* rate-limit error or another error
AnswersAsExpected ==
    \A i \in 1..Len(answers) : answers[i] \in {"response", "429", "error"}

\* C22: over sequential calls of request_processing the pool never holds
\* more than 3 handles, and while every attempt of a call returns a
\* non-empty response, raises a rate-limit error or raises another error,
\* every MODELS.pop() of the call finds the pool non-empty: the acquisition
\* does not fail.
C22_PoolBoundedAndNeverEmptyAtPop ==
    /\ Len(MODELS) <= 3
    /\ AnswersAsExpected =>
          /\ rp_pc = "loop" => MODELS # <<>>
          /\ result # "IndexError"

C22_Witness ==
    /\ calls = 3
    /\ poolAtEntry = 1
    /\ answers = <<"429", "429">>
    /\ rp_pc = "loop"
    /\ Len(MODELS) = 1

-----------------------------------------------------------------------------
(***************************************************************************)
(* The range of the ratings                                                *)
(***************************************************************************)
\* C21: every rating that get_rate returns, for any response text, has
\* Decrease Probability, Increase Probability and Informativeness each an
\* integer in 0..100.
C21_RatingInPercentRange ==
    gr_pc = "done" =>
       /\ rating.Decrease_Probability \in 0..100
       /\ rating.Increase_Probability \in 0..100
       /\ rating.Informativeness \in 0..100

=============================================================================
